---- MODULE Spec2Model ----
(***************************************************************************)
(* Model of server-scripts/update-authorized-keys.py: one run of main()    *)
(* (fetch, per-user update_authorized_keys, optional install_cron, or      *)
(* uninstall_cron) against the host's file system and crontab.             *)
(*                                                                         *)
(* Text (the crontab, a cron line) is a sequence of atoms.  An atom is one *)
(* character (NL, SP, "x") or one occurrence of a fixed word (the marker    *)
(* comment, the script name, an argument value), so that Python's          *)
(* split('\n'), the `in` substring tests, '\n'.join and strip() are        *)
(* computed on the text as the code computes them.                         *)
(***************************************************************************)
EXTENDS Integers, Sequences, FiniteSets, TLC

VARIABLES
    args,           \* parsed command line: server, key, group, install, uninstall
    users,          \* main(): the list of users to update (lines 298-301)
    isRoot,         \* os.geteuid() == 0
    pwdAvail,       \* `import pwd` succeeds
    fs,             \* home directory -> state of its .ssh artifact
    table,          \* the crontab of the invoking user
    pc,             \* position in main()
    keys_content,   \* result of fetch_authorized_keys
    idx,            \* position of the `for user in users` loop
    success_count,  \* main(): success_count
    exitCode,       \* process exit status (0 until sys.exit(1))
    fetchOutcome,   \* history: what the HTTP request did
    attempts,       \* history: user and result of each update_authorized_keys call
    lastCall,       \* history: the latest update_authorized_keys call
    fs0,            \* history: fs at the start of the run
    table0,         \* history: table at the start of the run
    tableRead,      \* history: `crontab -l` was run
    tableWritten,   \* history: `crontab -` or `crontab -r` was run
    installCall,    \* history: arguments of the install_cron call, if any
    lastOp,         \* history: last registrar operation and its outcome
    tablePrev,      \* history: table before the last registrar operation
    opsDone         \* number of registrar operations performed so far

vars == <<args, users, isRoot, pwdAvail, fs, table, pc, keys_content, idx,
          success_count, exitCode, fetchOutcome, attempts, lastCall, fs0, table0,
          tableRead, tableWritten, installCall, lastOp, tablePrev, opsDone>>

----------------------------------------------------------------------------
(* Bounds *)

MaxUsers == 2       \* longest --users list
MaxTableLen == 3    \* longest initial crontab, in atoms
MaxOps == 2         \* registrar operations in a row

----------------------------------------------------------------------------
(* Program constants and atoms *)

NL == "\n"
SP == " "
PLAIN == "x"        \* any character that is neither white space nor part of a fixed word

DEFAULT_SERVER == "https://umbonic-roseanna-cuppy.ngrok-free.dev"
DEFAULT_GROUP == "Developers"
CRON_COMMENT == "# GridBanner authorized_keys updater"
SCRIPT_NAME == "update-authorized-keys.py"
LOG_REDIRECT == ">> /var/log/gridbanner-keys-update.log 2>&1"

\* get_script_path(): the absolute path of this script, which ends in SCRIPT_NAME
get_script_path == "/opt/gridbanner/update-authorized-keys.py"
\* sys.executable
python_path == "/usr/bin/python3"

\* the atoms of which 'update-authorized-keys.py' is a substring
TokenAtoms == {SCRIPT_NAME, get_script_path}
\* the atoms of which CRON_COMMENT is a substring
MarkerAtoms == {CRON_COMMENT}
\* str.strip() with no argument strips white space
Whitespace == {NL, SP}

----------------------------------------------------------------------------
(* Python string operations on texts *)

RECURSIVE IndexOfNL(_, _)
IndexOfNL(t, i) ==
    IF i > Len(t) THEN 0
    ELSE IF t[i] = NL THEN i
    ELSE IndexOfNL(t, i + 1)

\* text.split('\n')
RECURSIVE Split(_)
Split(t) ==
    LET i == IndexOfNL(t, 1)
    IN IF i = 0 THEN <<t>>
       ELSE <<SubSeq(t, 1, i - 1)>> \o Split(SubSeq(t, i + 1, Len(t)))

\* '\n'.join(lines)
RECURSIVE Join(_)
Join(lines) ==
    IF Len(lines) = 0 THEN <<>>
    ELSE IF Len(lines) = 1 THEN lines[1]
    ELSE lines[1] \o <<NL>> \o Join(Tail(lines))

RECURSIVE LStrip(_)
LStrip(t) ==
    IF Len(t) > 0 /\ t[1] \in Whitespace THEN LStrip(Tail(t)) ELSE t

RECURSIVE RStrip(_)
RStrip(t) ==
    IF Len(t) > 0 /\ t[Len(t)] \in Whitespace
    THEN RStrip(SubSeq(t, 1, Len(t) - 1))
    ELSE t

\* text.strip()
Strip(t) == RStrip(LStrip(t))

\* CRON_COMMENT in line
HasMarker(line) == \E i \in DOMAIN line : line[i] \in MarkerAtoms

\* 'update-authorized-keys.py' in line
HasToken(line) == \E i \in DOMAIN line : line[i] \in TokenAtoms

\* ','.join(users)
RECURSIVE JoinComma(_)
JoinComma(us) ==
    IF Len(us) = 0 THEN <<>>
    ELSE IF Len(us) = 1 THEN <<us[1]>>
    ELSE <<us[1], ",">> \o JoinComma(Tail(us))

----------------------------------------------------------------------------
(* Scheduler registrar: install_cron / uninstall_cron *)

\* the crontab does not exist (`crontab -l` returns non-zero)
NoTable == [exists |-> FALSE, text |-> <<>>]

TableOf(t) == [exists |-> TRUE, text |-> t]

\* lines 193-194: users_arg and cmd
CronCommand(server, key, group, us) ==
    LET users_arg == IF Len(us) > 0
                     THEN <<SP, "--users", SP>> \o JoinComma(us)
                     ELSE <<>>
    IN <<python_path, SP, get_script_path, SP, "--server", SP, server, SP,
         "--key", SP, key, SP, "--group", SP, group>> \o users_arg

\* line 197: cron_entry
CronEntry(server, key, group, us) ==
    <<"*/1", SP, "*", SP, "*", SP, "*", SP, "*", SP>>
        \o CronCommand(server, key, group, us) \o <<SP, LOG_REDIRECT>>

KeepLine(line) == ~HasMarker(line) /\ ~HasToken(line)

\* mutant: only the marker comment is filtered, not the script name
FilterLines_MarkerOnly(lines) == SelectSeq(lines, LAMBDA line : ~HasMarker(line))

\* mutant: only the script name is filtered, not the marker comment
FilterLines_TokenOnly(lines) == SelectSeq(lines, LAMBDA line : ~HasToken(line))

\* mutant: the filter condition is inverted
FilterLines_Inverted(lines) ==
    SelectSeq(lines, LAMBDA line : HasMarker(line) \/ HasToken(line))

\* lines 206 and 251: filtered_lines
FilterLines(lines) == SelectSeq(lines, KeepLine)

\* lines 205-209 and 250-253: '\n'.join(filtered_lines).strip()
FilteredCrontab(current) == Strip(Join(FilterLines(Split(current))))

\* lines 209-213: new_crontab of install_cron
NewCrontab(current, cron_entry) ==
    LET filtered == FilteredCrontab(current)
        base == IF filtered # <<>> THEN filtered \o <<NL>> ELSE <<>>
    IN base \o <<CRON_COMMENT, NL>> \o cron_entry \o <<NL>>

(* install_cron as a function of the crontab, the privilege and what the    *)
(* crontab command does: toolOk = the command can be started, writeOk =    *)
(* `crontab -` returns 0.  exit = 1 is sys.exit(1), exit = 0 a normal      *)
(* return.  read / wrote: `crontab -l` / `crontab -` were run.             *)
install_cron(tbl, root, toolOk, writeOk, server, key, group, us) ==
    IF ~root
    THEN [table |-> tbl, exit |-> 1, read |-> FALSE, wrote |-> FALSE]
    ELSE IF ~toolOk
    THEN [table |-> tbl, exit |-> 1, read |-> FALSE, wrote |-> FALSE]
    ELSE LET current_crontab == IF tbl.exists THEN tbl.text ELSE <<>>
             new_crontab == NewCrontab(current_crontab,
                                       CronEntry(server, key, group, us))
         IN IF writeOk
            THEN [table |-> TableOf(new_crontab), exit |-> 0,
                  read |-> TRUE, wrote |-> TRUE]
            ELSE [table |-> tbl, exit |-> 1, read |-> TRUE, wrote |-> TRUE]

(* uninstall_cron, likewise.  The return code of `crontab -` and of         *)
(* `crontab -r` is not looked at: the function returns normally either way.*)
uninstall_cron(tbl, root, toolOk, writeOk) ==
    IF ~root
    THEN [table |-> tbl, exit |-> 1, read |-> FALSE, wrote |-> FALSE]
    ELSE IF ~toolOk
    THEN [table |-> tbl, exit |-> 1, read |-> FALSE, wrote |-> FALSE]
    ELSE IF ~tbl.exists
    THEN [table |-> tbl, exit |-> 0, read |-> TRUE, wrote |-> FALSE]
    ELSE LET new_crontab == FilteredCrontab(tbl.text)
         IN IF new_crontab # <<>>
            THEN [table |-> IF writeOk THEN TableOf(new_crontab \o <<NL>>) ELSE tbl,
                  exit |-> 0, read |-> TRUE, wrote |-> TRUE]
            ELSE [table |-> IF writeOk THEN NoTable ELSE tbl,
                  exit |-> 0, read |-> TRUE, wrote |-> TRUE]

\* history record of a registrar operation; effective: it ran to its end and
\* every crontab command it ran returned 0
OpRecord(op, r, root, toolOk, writeOk) ==
    [op |-> op, exit |-> r.exit, root |-> root, tool |-> toolOk,
     writeOk |-> writeOk,
     effective |-> root /\ toolOk /\ (r.wrote => writeOk)]

NoOp ==
    [op |-> "none", exit |-> 0, root |-> FALSE, tool |-> FALSE, writeOk |-> FALSE,
     effective |-> FALSE]

----------------------------------------------------------------------------
(* Account key reconciler: update_authorized_keys *)

\* pwd.getpwnam(user).pw_dir for the users of the passwd database;
\* "ghost" is not in it (getpwnam raises KeyError)
PasswdHome == [root |-> "/root", alice |-> "/home/alice"]

\* line 126: f"/home/{user}"
FallbackHome == [root |-> "/home/root", alice |-> "/home/alice", ghost |-> "/home/ghost"]

\* the home directories that exist on the host
Homes == {"/root", "/home/alice"}

\* the user the process runs as: root, or an unprivileged user
Invoker(root) == IF root THEN "root" ELSE "alice"

\* the system call of update_authorized_keys that raises, if any.  A copy or
\* a write that raises is taken to raise after its destination was opened,
\* the failure that leaves the most behind.
FailPoints == {"none", "mkdir", "backup", "write", "chmod", "chown"}

\* the call has run `step` and goes on
Ran(c, step) == [c EXCEPT !.steps = Append(@, step)]

\* `step` raised or returned False: the call is over (lines 123, 129, 167-172)
Returned(c, step, how) ==
    [c EXCEPT !.steps = Append(@, step), !.done = TRUE, !.ret = FALSE, !.failed = how]

\* lines 114-129: determine the home directory
StepResolve(c, user, pwdAv) ==
    IF user = "root"
    THEN [Ran(c, "resolve") EXCEPT !.home = "/root"]
    ELSE IF pwdAv
    THEN IF user \in DOMAIN PasswdHome
         THEN [Ran(c, "resolve") EXCEPT !.home = PasswdHome[user]]
         ELSE Returned(c, "resolve", "unknown_user")
    ELSE IF FallbackHome[user] \in DOMAIN c.fs
         THEN [Ran(c, "resolve") EXCEPT !.home = FallbackHome[user]]
         ELSE Returned(c, "resolve", "home_missing")

\* lines 132-133: os.makedirs(ssh_dir, mode=0o700, exist_ok=True)
StepMkdir(c, root, failAt) ==
    IF c.done THEN c
    ELSE IF failAt = "mkdir" THEN Returned(c, "mkdir", failAt)
    ELSE [Ran(c, "mkdir") EXCEPT !.fs[c.home] =
            IF @.ssh THEN @
            ELSE [@ EXCEPT !.ssh = TRUE, !.dmode = "700", !.downer = Invoker(root)]]

\* mutant: an existing backup is kept rather than overwritten
StepBackup_KeepExisting(c, failAt) ==
    IF c.done THEN c
    ELSE IF ~c.fs[c.home].hasKeys THEN c
    ELSE IF c.fs[c.home].hasBackup THEN Ran(c, "backup")
    ELSE IF failAt = "backup"
    THEN [Returned(c, "backup", failAt) EXCEPT
            !.fs[c.home].hasBackup = TRUE, !.fs[c.home].backup = <<>>]
    ELSE [Ran(c, "backup") EXCEPT
            !.fs[c.home].hasBackup = TRUE,
            !.fs[c.home].backup = c.fs[c.home].keys]

\* mutant: a failed backup copy is passed over and the call goes on
StepBackup_FailureIgnored(c, failAt) ==
    IF c.done THEN c
    ELSE IF ~c.fs[c.home].hasKeys THEN c
    ELSE IF failAt = "backup"
    THEN [Ran(c, "backup") EXCEPT
            !.failed = failAt,
            !.fs[c.home].hasBackup = TRUE, !.fs[c.home].backup = <<>>]
    ELSE [Ran(c, "backup") EXCEPT
            !.fs[c.home].hasBackup = TRUE,
            !.fs[c.home].backup = c.fs[c.home].keys]

\* lines 140-143: shutil.copy2(keys_file, backup_file) if keys_file exists
StepBackup(c, failAt) ==
    IF c.done THEN c
    ELSE IF ~c.fs[c.home].hasKeys THEN c
    ELSE IF failAt = "backup"
    THEN [Returned(c, "backup", failAt) EXCEPT
            !.fs[c.home].hasBackup = TRUE, !.fs[c.home].backup = <<>>]
    ELSE [Ran(c, "backup") EXCEPT
            !.fs[c.home].hasBackup = TRUE,
            !.fs[c.home].backup = c.fs[c.home].keys]

\* open(keys_file, 'w'): the file exists and is empty afterwards
Truncated(h, root) ==
    IF h.hasKeys THEN [h EXCEPT !.keys = <<>>]
    ELSE [h EXCEPT !.hasKeys = TRUE, !.keys = <<>>, !.kmode = "644",
                   !.kowner = Invoker(root)]

\* mutant: the file is opened for appending
StepWrite_Append(c, content, root, failAt) ==
    IF c.done THEN c
    ELSE IF failAt = "write" THEN Returned(c, "write", failAt)
    ELSE [Ran(c, "write") EXCEPT
            !.fs[c.home] = [Truncated(@, root) EXCEPT
                              !.keys = c.fs[c.home].keys \o content]]

\* lines 146-147: with open(keys_file, 'w') as f: f.write(keys_content)
StepWrite(c, content, root, failAt) ==
    IF c.done THEN c
    ELSE IF failAt = "write"
    THEN [Returned(c, "write", failAt) EXCEPT
            !.fs[c.home] = Truncated(@, root)]
    ELSE [Ran(c, "write") EXCEPT
            !.fs[c.home] = [Truncated(@, root) EXCEPT !.keys = content]]

\* lines 150-151: os.chmod(keys_file, 0o600); os.chmod(ssh_dir, 0o700)
StepChmod(c, failAt) ==
    IF c.done THEN c
    ELSE IF failAt = "chmod" THEN Returned(c, "chmod", failAt)
    ELSE [Ran(c, "chmod") EXCEPT
            !.fs[c.home].kmode = "600", !.fs[c.home].dmode = "700"]

\* lines 154-162: chown to the user when running as root; a failed lookup
\* (ImportError, KeyError) is passed over
StepChown(c, user, root, pwdAv, failAt) ==
    IF c.done THEN c
    ELSE IF ~root THEN c
    ELSE IF ~pwdAv \/ user \notin DOMAIN PasswdHome
    THEN [Ran(c, "chown") EXCEPT !.lookupFailed = TRUE]
    ELSE IF failAt = "chown" THEN Returned(c, "chown", failAt)
    ELSE [Ran(c, "chown") EXCEPT
            !.fs[c.home].kowner = user, !.fs[c.home].downer = user]

\* lines 164-165: return True
StepReturn(c) ==
    IF c.done THEN c ELSE [c EXCEPT !.done = TRUE, !.ret = TRUE]

\* the call at its entry
CallEntry(f) ==
    [done |-> FALSE, ret |-> FALSE, home |-> "", fs |-> f, steps |-> <<>>,
     failed |-> "none", lookupFailed |-> FALSE]

(* update_authorized_keys(user, keys_content) on file system f; failAt is   *)
(* the system call that raises, if it is reached.                          *)
update_authorized_keys(user, content, f, root, pwdAv, failAt) ==
    StepReturn(
      StepChown(
        StepChmod(
          StepWrite(
            StepBackup(
              StepMkdir(
                StepResolve(CallEntry(f), user, pwdAv),
                root, failAt),
              failAt),
            content, root, failAt),
          failAt),
        user, root, pwdAv, failAt))

----------------------------------------------------------------------------
(* Key source client: fetch_authorized_keys *)

\* None
None == [ok |-> FALSE, body |-> <<>>]

\* authorized_keys contents the server may send (a sequence of key lines)
Payloads == {<<>>, <<"key1">>}

\* what urlopen / response.read().decode may do
FetchOutcomes ==
    [kind : {"200"}, body : Payloads]
        \cup [kind : {"status_not_200", "http_404", "http_401", "http_other",
                      "url_error", "timeout", "decode_error"},
              body : {<<>>}]

\* lines 66-98: the content on status 200, None on every other outcome
fetch_authorized_keys(o) ==
    IF o.kind = "200" THEN [ok |-> TRUE, body |-> o.body] ELSE None

----------------------------------------------------------------------------
(* Orchestrator: main *)

\* u.strip() of one item of the --users list, as a user name ("" if empty)
StripItem(item) ==
    LET t == Strip(item) IN IF t = <<>> THEN "" ELSE t[1]

RECURSIVE IndexOfComma(_, _)
IndexOfComma(t, i) ==
    IF i > Len(t) THEN 0
    ELSE IF t[i] = "," THEN i
    ELSE IndexOfComma(t, i + 1)

\* args.users.split(',')
RECURSIVE SplitComma(_)
SplitComma(t) ==
    LET i == IndexOfComma(t, 1)
    IN IF i = 0 THEN <<t>>
       ELSE <<SubSeq(t, 1, i - 1)>> \o SplitComma(SubSeq(t, i + 1, Len(t)))

RECURSIVE StripAll(_)
StripAll(items) ==
    IF Len(items) = 0 THEN <<>>
    ELSE LET u == StripItem(Head(items))
         IN (IF u = "" THEN <<>> ELSE <<u>>) \o StripAll(Tail(items))

\* lines 298-301: users
ParseUsers(a) ==
    IF a.given /\ a.text # <<>>
    THEN StripAll(SplitComma(a.text))
    ELSE <<"root">>

\* mutant: the loop is left at the first user that fails
NextIdx_BreakOnFailure(i, ret) == IF ret THEN i + 1 ELSE i + MaxUsers + 1

\* line 311: the loop goes on to the next user whatever the call returned
NextIdx(i, ret) == i + 1

\* line 312-313
NextCount(n, ret) == IF ret THEN n + 1 ELSE n

\* mutant: a failed fetch does not end the run
AfterFetch_IgnoreFailure(content) == "loop"

\* line 305: where main goes after the fetch
AfterFetch(content) == IF content.ok THEN "loop" ELSE "exit1"

\* mutant: no success at all is not fatal
AfterLoop_NoZeroCheck(count, installRequested) ==
    IF installRequested THEN "install" ELSE "return"

\* lines 315-323: where main goes after the loop
AfterLoop(count, installRequested) ==
    IF count = 0 THEN "exit1"
    ELSE IF installRequested THEN "install"
    ELSE "return"

\* mutant: only the users that were updated are handed to install_cron
InstallUsers_SucceededOnly(us, cs) ==
    LET F[i \in 0..Len(us)] ==
            IF i = 0 THEN <<>>
            ELSE IF cs[i].ok THEN Append(F[i - 1], us[i]) ELSE F[i - 1]
    IN F[Len(us)]

\* line 323: the user list handed to install_cron
InstallUsers(us, cs) == us

\* record of one update_authorized_keys call
CallRecord(user, content, before, r) ==
    [made |-> TRUE, user |-> user, payload |-> content, ok |-> r.ret, steps |-> r.steps,
     failed |-> r.failed, lookupFailed |-> r.lookupFailed, home |-> r.home,
     before |-> before, after |-> r.fs]

NoCall ==
    [made |-> FALSE, user |-> "", payload |-> <<>>, ok |-> FALSE, steps |-> <<>>,
     failed |-> "none", lookupFailed |-> FALSE, home |-> "", before |-> <<>>,
     after |-> <<>>]

NoInstall == [called |-> FALSE, server |-> "", key |-> "", group |-> "", users |-> <<>>]

\* lines 293-295: --uninstall
Uninstall ==
    /\ pc = "start"
    /\ args.uninstall
    /\ \E toolOk \in BOOLEAN, writeOk \in BOOLEAN :
         LET r == uninstall_cron(table, isRoot, toolOk, writeOk)
         IN /\ table' = r.table
            /\ exitCode' = r.exit
            /\ tableRead' = (tableRead \/ r.read)
            /\ tableWritten' = (tableWritten \/ r.wrote)
            /\ lastOp' = OpRecord("uninstall", r, isRoot, toolOk, writeOk)
    /\ tablePrev' = table
    /\ opsDone' = opsDone + 1
    /\ pc' = "done"
    /\ UNCHANGED <<args, users, isRoot, pwdAvail, fs, keys_content, idx,
                   success_count, fetchOutcome, attempts, lastCall, fs0, table0, installCall>>

\* lines 297-307: the user list and the fetch
Fetch ==
    /\ pc = "start"
    /\ ~args.uninstall
    /\ users' = ParseUsers(args.users)
    /\ \E o \in FetchOutcomes :
         /\ fetchOutcome' = o.kind
         /\ keys_content' = fetch_authorized_keys(o)
    /\ IF AfterFetch(keys_content') = "loop"
       THEN pc' = "loop" /\ exitCode' = exitCode
       ELSE pc' = "done" /\ exitCode' = 1
    /\ idx' = 1
    /\ success_count' = 0
    /\ UNCHANGED <<args, isRoot, pwdAvail, fs, table, attempts, lastCall, fs0, table0,
                   tableRead, tableWritten, installCall, lastOp, tablePrev, opsDone>>

\* lines 311-313: one iteration of the loop
Update ==
    /\ pc = "loop"
    /\ idx <= Len(users)
    /\ \E failAt \in FailPoints :
         LET r == update_authorized_keys(users[idx], keys_content.body, fs,
                                         isRoot, pwdAvail, failAt)
         IN /\ fs' = r.fs
            /\ success_count' = NextCount(success_count, r.ret)
            /\ idx' = NextIdx(idx, r.ret)
            /\ attempts' = Append(attempts, [user |-> users[idx], ok |-> r.ret])
            /\ lastCall' = CallRecord(users[idx], keys_content.body, fs, r)
    /\ UNCHANGED <<args, users, isRoot, pwdAvail, table, pc, keys_content,
                   exitCode, fetchOutcome, fs0, table0, tableRead, tableWritten,
                   installCall, lastOp, tablePrev, opsDone>>

\* lines 315-322: after the loop
Tally ==
    /\ pc = "loop"
    /\ idx > Len(users)
    /\ LET next == AfterLoop(success_count, args.install)
       IN /\ pc' = IF next = "install" THEN "install" ELSE "done"
          /\ exitCode' = IF next = "exit1" THEN 1 ELSE exitCode
    /\ UNCHANGED <<args, users, isRoot, pwdAvail, fs, table, keys_content, idx,
                   success_count, fetchOutcome, attempts, lastCall, fs0, table0, tableRead,
                   tableWritten, installCall, lastOp, tablePrev, opsDone>>

\* line 323: install_cron(args.server, args.key, args.group, users)
Install ==
    /\ pc = "install"
    /\ \E toolOk \in BOOLEAN, writeOk \in BOOLEAN :
         LET us == InstallUsers(users, attempts)
             r == install_cron(table, isRoot, toolOk, writeOk,
                               args.server, args.key, args.group, us)
         IN /\ table' = r.table
            /\ exitCode' = r.exit
            /\ tableRead' = (tableRead \/ r.read)
            /\ tableWritten' = (tableWritten \/ r.wrote)
            /\ lastOp' = OpRecord("install", r, isRoot, toolOk, writeOk)
            /\ installCall' = [called |-> TRUE, server |-> args.server,
                               key |-> args.key, group |-> args.group, users |-> us]
    /\ tablePrev' = table
    /\ opsDone' = opsDone + 1
    /\ pc' = "done"
    /\ UNCHANGED <<args, users, isRoot, pwdAvail, fs, keys_content, idx,
                   success_count, fetchOutcome, attempts, lastCall, fs0, table0>>

----------------------------------------------------------------------------
(* Initial states *)

Servers == {DEFAULT_SERVER, "http://server:3000"}
AdminKey == "adminkey"

\* one comma-separated item of --users, as typed
Items == {<<"root">>, <<SP, "alice">>, <<"ghost">>}

\* lists with empty items: " ," and "ghost,, alice"
BlankItemLists == {<<SP, ",">>, <<"ghost", ",", ",", SP, "alice">>}

RECURSIVE JoinItems(_)
JoinItems(items) ==
    IF Len(items) = 0 THEN <<>>
    ELSE IF Len(items) = 1 THEN items[1]
    ELSE items[1] \o <<",">> \o JoinItems(Tail(items))

\* values of args.users: absent, or a list of at most MaxUsers items
UsersArgs ==
    {[given |-> FALSE, text |-> <<>>]}
        \cup {[given |-> TRUE, text |-> JoinItems(s)] :
                s \in UNION {[1..n -> Items] : n \in 0..MaxUsers}}
        \cup {[given |-> TRUE, text |-> t] : t \in BlankItemLists}

NoSsh ==
    [ssh |-> FALSE, dmode |-> "", downer |-> "", hasKeys |-> FALSE, keys |-> <<>>,
     kmode |-> "", kowner |-> "", hasBackup |-> FALSE, backup |-> <<>>]

WithKeys ==
    [ssh |-> TRUE, dmode |-> "755", downer |-> "root", hasKeys |-> TRUE,
     keys |-> <<"old1">>, kmode |-> "644", kowner |-> "root",
     hasBackup |-> FALSE, backup |-> <<>>]

WithBackup ==
    [ssh |-> TRUE, dmode |-> "700", downer |-> "root", hasKeys |-> TRUE,
     keys |-> <<"old1">>, kmode |-> "600", kowner |-> "root",
     hasBackup |-> TRUE, backup |-> <<"old0">>]

\* states of a home directory's .ssh artifact before the run
HomeStates == {NoSsh, WithKeys, WithBackup}

\* file systems before a run of main: /root with no .ssh or with a key file
\* never backed up, /home/alice with no .ssh or with a key file and a backup
InitialFs ==
    {f \in [Homes -> HomeStates] :
        f["/root"] # WithBackup /\ f["/home/alice"] # WithKeys}

\* crontabs before a run of main
RunTables ==
    {NoTable,
     TableOf(<<PLAIN, NL, CRON_COMMENT, NL, SCRIPT_NAME, NL>>)}

\* every crontab of at most MaxTableLen atoms, and none
TableAtoms == {NL, SP, PLAIN, CRON_COMMENT, SCRIPT_NAME}
AllTables ==
    {NoTable} \cup {TableOf(t) : t \in UNION {[1..n -> TableAtoms] : n \in 0..MaxTableLen}}

\* the history and the program counters at process start
Fresh ==
    /\ users = <<>>
    /\ keys_content = None
    /\ idx = 1
    /\ success_count = 0
    /\ exitCode = 0
    /\ fetchOutcome = "none"
    /\ attempts = <<>>
    /\ lastCall = NoCall
    /\ fs0 = fs
    /\ table0 = table
    /\ tableRead = FALSE
    /\ tableWritten = FALSE
    /\ installCall = NoInstall
    /\ lastOp = NoOp
    /\ tablePrev = table
    /\ opsDone = 0

\* a run of main(), line 290: the arguments are parsed
Init ==
    /\ args \in [server : Servers, key : {AdminKey}, group : {DEFAULT_GROUP},
                  users : UsersArgs, install : BOOLEAN, uninstall : BOOLEAN]
    /\ isRoot \in BOOLEAN
    /\ pwdAvail \in BOOLEAN
    /\ fs \in InitialFs
    /\ table \in RunTables
    /\ pc = "start"
    /\ Fresh

Next == Uninstall \/ Fetch \/ Update \/ Tally \/ Install

Spec == Init /\ [][Next]_vars

----------------------------------------------------------------------------
(* The registrar on its own: any crontab, then install and uninstall        *)
(* operations one after the other, each a process of its own.              *)

RegistrarInstall ==
    /\ pc = "registrar"
    /\ opsDone < MaxOps
    /\ \E toolOk \in BOOLEAN, writeOk \in BOOLEAN, us \in {<<"root">>, <<"alice", "ghost">>} :
         LET r == install_cron(table, isRoot, toolOk, writeOk,
                               args.server, args.key, args.group, us)
         IN /\ table' = r.table
            /\ exitCode' = r.exit
            /\ tableRead' = r.read
            /\ tableWritten' = r.wrote
            /\ lastOp' = OpRecord("install", r, isRoot, toolOk, writeOk)
            /\ installCall' = [called |-> TRUE, server |-> args.server,
                               key |-> args.key, group |-> args.group, users |-> us]
    /\ tablePrev' = table
    /\ opsDone' = opsDone + 1
    /\ UNCHANGED <<args, users, isRoot, pwdAvail, fs, pc, keys_content, idx,
                   success_count, fetchOutcome, attempts, lastCall, fs0, table0>>

RegistrarUninstall ==
    /\ pc = "registrar"
    /\ opsDone < MaxOps
    /\ \E toolOk \in BOOLEAN, writeOk \in BOOLEAN :
         LET r == uninstall_cron(table, isRoot, toolOk, writeOk)
         IN /\ table' = r.table
            /\ exitCode' = r.exit
            /\ tableRead' = r.read
            /\ tableWritten' = r.wrote
            /\ lastOp' = OpRecord("uninstall", r, isRoot, toolOk, writeOk)
    /\ tablePrev' = table
    /\ opsDone' = opsDone + 1
    /\ UNCHANGED <<args, users, isRoot, pwdAvail, fs, pc, keys_content, idx,
                   success_count, fetchOutcome, attempts, lastCall, fs0, table0, installCall>>

InitCron ==
    /\ args = [server |-> DEFAULT_SERVER, key |-> AdminKey, group |-> DEFAULT_GROUP,
               users |-> [given |-> FALSE, text |-> <<>>],
               install |-> TRUE, uninstall |-> FALSE]
    /\ isRoot \in BOOLEAN
    /\ pwdAvail = TRUE
    /\ fs = [h \in Homes |-> NoSsh]
    /\ table \in AllTables
    /\ pc = "registrar"
    /\ Fresh

NextCron == RegistrarInstall \/ RegistrarUninstall

SpecCron == InitCron /\ [][NextCron]_vars

----------------------------------------------------------------------------
(* Properties of the scheduler registrar, checked under SpecCron *)

\* the lines of a crontab; none when there is no crontab
Lines(tbl) == IF tbl.exists THEN Split(tbl.text) ELSE <<>>

IsBlank(line) == \A i \in DOMAIN line : line[i] \in Whitespace

IsToolLine(line) ==
    \E i \in DOMAIN line : line[i] \in {CRON_COMMENT, SCRIPT_NAME, get_script_path}

NonBlankLines(tbl) == SelectSeq(Lines(tbl), LAMBDA line : ~IsBlank(line))

\* positions of the lines that belong to the tool
ToolLineIndexes(tbl) == {i \in DOMAIN Lines(tbl) : IsToolLine(Lines(tbl)[i])}

NoEntry(tbl) == ToolLineIndexes(tbl) = {}

\* one marker-comment line followed by one entry line, and no other line of the tool
ExactlyOneEntry(tbl) ==
    \E i \in DOMAIN Lines(tbl) :
        /\ ToolLineIndexes(tbl) = {i, i + 1}
        /\ Lines(tbl)[i] = <<CRON_COMMENT>>
        /\ HasToken(Lines(tbl)[i + 1])
        /\ ~HasMarker(Lines(tbl)[i + 1])

\* the non-blank lines of the table before the operation that are not the tool's
OtherLinesBefore == SelectSeq(NonBlankLines(tablePrev), LAMBDA line : ~IsToolLine(line))

\* the non-blank lines of the table now, without the pair an install appended
LinesKeptNow ==
    LET now == NonBlankLines(table)
    IN IF lastOp.op = "install" /\ Len(now) >= 2
       THEN SubSeq(now, 1, Len(now) - 2)
       ELSE now

\* the last two non-blank lines are the marker comment and the new entry
PairAppended ==
    LET now == NonBlankLines(table)
    IN /\ Len(now) >= 2
       /\ now[Len(now) - 1] = <<CRON_COMMENT>>
       /\ now[Len(now)] = CronEntry(installCall.server, installCall.key,
                                     installCall.group, installCall.users)

(* C1: after any successful install or uninstall the table holds at most   *)
(* one entry of the tool (a marker line followed by an entry line), and    *)
(* after a successful install exactly one, whatever the table held before. *)
C1_AtMostOneEntry ==
    (lastOp.op # "none" /\ lastOp.effective) =>
        /\ NoEntry(table) \/ ExactlyOneEntry(table)
        /\ lastOp.op = "install" => ExactlyOneEntry(table)

\* install after install: the table before the second install held the entry
\* the first one wrote
C1_Witness ==
    /\ opsDone = 2
    /\ lastOp.op = "install" /\ lastOp.effective
    /\ \E i \in DOMAIN tablePrev.text : tablePrev.text[i] = get_script_path
    /\ ExactlyOneEntry(table)

\* a list of non-blank lines without the white space before its first and
\* after its last character
EdgeTrim(ls) == IF Len(ls) = 0 THEN <<>> ELSE Split(Strip(Join(ls)))

----------------------------------------------------------------------------
(* Properties of a run of main, checked under Spec *)

\* number of update_authorized_keys calls that returned True
Succeeded == Cardinality({i \in DOMAIN attempts : attempts[i].ok})

Finished == pc = "done"

\* the run did not get to the accounts: the fetch failed
FetchFailed == ~args.uninstall /\ fetchOutcome \notin {"none", "200"}

\* the accounts were processed and none succeeded
ZeroSucceeded == ~args.uninstall /\ fetchOutcome = "200" /\ Succeeded = 0

\* uninstall without privilege or without the crontab command
UninstallCouldNotProceed ==
    args.uninstall /\ lastOp.op = "uninstall" /\ (~lastOp.root \/ ~lastOp.tool)

\* install without privilege, without the crontab command, or `crontab -` failed
InstallCouldNotProceed ==
    /\ ~args.uninstall /\ args.install /\ Succeeded >= 1
    /\ lastOp.op = "install"
    /\ ~lastOp.root \/ ~lastOp.tool \/ ~lastOp.writeOk

(* C2 as stated: the exit status is non-zero iff no account succeeded, the *)
(* fetch failed, or uninstall could not proceed.                           *)
C2_ExitStatus ==
    Finished =>
        (exitCode # 0 <=> (ZeroSucceeded \/ FetchFailed \/ UninstallCouldNotProceed))

(* C2 amended: the exit status is non-zero iff no account succeeded, the   *)
(* fetch failed, uninstall could not proceed, or install was requested, an *)
(* account succeeded and install could not proceed.                        *)
C2_ExitStatusWithInstall ==
    Finished =>
        (exitCode # 0 <=>
            (ZeroSucceeded \/ FetchFailed \/ UninstallCouldNotProceed
                \/ InstallCouldNotProceed))

\* a run in which an account succeeded and the requested install failed
C2_Witness ==
    /\ Finished /\ Succeeded >= 1 /\ InstallCouldNotProceed /\ exitCode = 1

\* the home directory of the latest call, before and after it
Before == lastCall.before[lastCall.home]
After == lastCall.after[lastCall.home]

(* C3: if the call returned success and authorized_keys existed with       *)
(* content X before it, authorized_keys.backup holds exactly X after it.   *)
C3_BackupHoldsOldContent ==
    (lastCall.made /\ lastCall.ok /\ Before.hasKeys) =>
        (After.hasBackup /\ After.backup = Before.keys)

\* a successful call over a key file and an older backup of other content
C3_Witness ==
    /\ lastCall.made /\ lastCall.ok
    /\ Before.hasKeys /\ Before.hasBackup
    /\ Before.backup # Before.keys
    /\ lastCall.payload # Before.keys
    /\ After.backup = Before.keys

(* C4: if the call returned success, authorized_keys holds exactly the     *)
(* payload, whatever it held before.                                       *)
C4_FileIsPayload ==
    (lastCall.made /\ lastCall.ok) =>
        (After.hasKeys /\ After.keys = lastCall.payload)

\* a successful call that replaced other, non-empty content
C4_Witness ==
    /\ lastCall.made /\ lastCall.ok
    /\ Before.hasKeys /\ Before.keys # <<>>
    /\ lastCall.payload # <<>> /\ lastCall.payload # Before.keys
    /\ After.keys = lastCall.payload

(* C5: after a successful fetch the accounts are attempted one by one in   *)
(* input order, whether or not earlier ones failed; when the loop is over  *)
(* every account was attempted and success_count is the number of calls    *)
(* that succeeded.                                                         *)
C5_EveryAccountAttempted ==
    (~args.uninstall /\ fetchOutcome = "200") =>
        /\ Len(attempts) <= Len(users)
        /\ \A i \in DOMAIN attempts : attempts[i].user = users[i]
        /\ success_count = Succeeded
        /\ users = ParseUsers(args.users)
        /\ pc \in {"install", "done"} => Len(attempts) = Len(users)

\* the first account failed (unknown user), the second one succeeded: 1 of 2
C5_Witness ==
    /\ Finished
    /\ Len(users) = 2 /\ Len(attempts) = 2
    /\ attempts[1] = [user |-> "ghost", ok |-> FALSE]
    /\ attempts[2].ok
    /\ success_count = 1

(* C6: when the fetch fails the run ends with a non-zero exit, no .ssh     *)
(* directory, authorized_keys or backup file was created or changed, and   *)
(* the crontab was neither read nor written, install requested or not.     *)
C6_FetchFailureTouchesNothing ==
    (Finished /\ FetchFailed) =>
        /\ exitCode # 0
        /\ fs = fs0
        /\ attempts = <<>>
        /\ table = table0
        /\ ~tableRead /\ ~tableWritten
        /\ ~installCall.called

\* a 404 in a run that asked for install, on a host that has a crontab
C6_Witness ==
    /\ Finished /\ fetchOutcome = "http_404"
    /\ args.install /\ table0.exists
    /\ exitCode = 1

\* t holds the atoms of sub, in a row
ContainsSeq(t, sub) ==
    \E i \in 0..(Len(t) - Len(sub)) : SubSeq(t, i + 1, i + Len(sub)) = sub

\* the last non-blank line of the crontab
LastLine == NonBlankLines(table)[Len(NonBlankLines(table))]

(* C8: a run without --uninstall calls install_cron exactly when install   *)
(* was requested and an account succeeded; with no success the run is      *)
(* fatal and the crontab is not written; the entry installed carries the   *)
(* server, the key, the group and the whole user list of the run.          *)
C8_InstallWhenRequestedAndSucceeded ==
    (Finished /\ ~args.uninstall) =>
        /\ installCall.called <=> (args.install /\ Succeeded >= 1)
        /\ ZeroSucceeded => (exitCode # 0 /\ ~tableWritten /\ table = table0)
        /\ installCall.called =>
              /\ installCall.server = args.server
              /\ installCall.key = args.key
              /\ installCall.group = args.group
              /\ installCall.users = ParseUsers(args.users)
        /\ (installCall.called /\ lastOp.effective) =>
              /\ ContainsSeq(LastLine, <<"--server", SP, args.server, SP>>)
              /\ ContainsSeq(LastLine, <<"--key", SP, args.key, SP>>)
              /\ ContainsSeq(LastLine, <<"--group", SP, args.group, SP>>)
              /\ ContainsSeq(LastLine, <<"--users", SP>>
                                         \o JoinComma(ParseUsers(args.users))
                                         \o <<SP>>)

\* an entry installed by a run in which one of two accounts failed
C8_Witness ==
    /\ Finished /\ installCall.called /\ lastOp.effective
    /\ Len(attempts) = 2
    /\ \E i \in DOMAIN attempts : ~attempts[i].ok
    /\ ContainsSeq(LastLine, <<"--users", SP>> \o JoinComma(users) \o <<SP>>)

\* the steps in the order of the code
StepOrder == <<"resolve", "mkdir", "backup", "write", "chmod", "chown">>

Rank(step) == CHOOSE i \in DOMAIN StepOrder : StepOrder[i] = step

\* the step at which each failure arises
StepOfFailure(how) ==
    IF how \in {"unknown_user", "home_missing"} THEN "resolve" ELSE how

\* the steps of a call that nothing stops: backup only over an existing file,
\* chown only as root
StepsOfFullCall ==
    SelectSeq(StepOrder,
              LAMBDA st : /\ st = "backup" => lastCall.before[lastCall.home].hasKeys
                          /\ st = "chown" => isRoot)

(* C10: the steps run in the order resolve, mkdir, backup, write, chmod,   *)
(* chown; a step that fails is the last one run and the call returns       *)
(* False; a failed home resolution changes nothing, a failed backup copy   *)
(* leaves authorized_keys as it was; a failed owner lookup is passed over  *)
(* and the call returns True.                                              *)
C10_StepsShortCircuit ==
    lastCall.made =>
        /\ Len(lastCall.steps) >= 1 /\ lastCall.steps[1] = "resolve"
        /\ \A i, j \in DOMAIN lastCall.steps :
              i < j => Rank(lastCall.steps[i]) < Rank(lastCall.steps[j])
        /\ lastCall.failed # "none" =>
              /\ ~lastCall.ok
              /\ lastCall.steps[Len(lastCall.steps)] = StepOfFailure(lastCall.failed)
        /\ lastCall.failed = "none" =>
              /\ lastCall.ok
              /\ lastCall.steps = StepsOfFullCall
        /\ StepOfFailure(lastCall.failed) \in {"resolve", "mkdir"} =>
              lastCall.after = lastCall.before
        /\ lastCall.failed = "backup" =>
              /\ After.hasKeys = Before.hasKeys
              /\ After.keys = Before.keys
              /\ After.kmode = Before.kmode
        /\ lastCall.lookupFailed => lastCall.ok

\* a call stopped by the backup copy, over an existing key file
C10_Witness ==
    /\ lastCall.made /\ lastCall.failed = "backup"
    /\ ~lastCall.ok
    /\ Before.hasKeys
    /\ lastCall.steps = <<"resolve", "mkdir", "backup">>

====
